---- MODULE Spec2Model ----
(***************************************************************************)
(* Model of utils/dataloaders/dataloader_train.py: the sample indexer      *)
(* (make_dataset), the dataset constructor (DatasetFolder.__init__ via     *)
(* ImageFolderTrain.__init__) and the sample accessor                      *)
(* (DatasetFolder.__getitem__) with its loaders.                           *)
(*                                                                         *)
(* Python strings are sequences of one-character strings, so that          *)
(* str.lower, str.endswith, `in` and str.replace are computed.             *)
(***************************************************************************)
EXTENDS Integers, Sequences, FiniteSets, TLC

VARIABLES walk, image_backend, state, samples, classes, patch_size, transform, ret

vars == <<walk, image_backend, state, samples, classes, patch_size, transform, ret>>

(* ------------------------------ bounds -------------------------------- *)

\* Largest number of files of a directory walk whose dataset is then read.
MaxFiles == 1

\* Largest number of files of a directory walk that is only indexed.
MaxWalk == 2

\* Largest configured patch size.
MaxPatch == 2

(* --------------------------- string helpers --------------------------- *)

\* str.lower on the characters used in the model.
LowerChar(c) ==
    CASE c = "P" -> "p"
      [] c = "N" -> "n"
      [] c = "G" -> "g"
      [] c = "T" -> "t"
      [] OTHER -> c

lower(s) == [i \in 1..Len(s) |-> LowerChar(s[i])]

\* str.endswith
endswith(s, suf) ==
    /\ Len(suf) <= Len(s)
    /\ SubSeq(s, Len(s) - Len(suf) + 1, Len(s)) = suf

\* Python's `sub in s` for strings.
contains(sub, s) ==
    \E i \in 1..(Len(s) - Len(sub) + 1) : SubSeq(s, i, i + Len(sub) - 1) = sub

\* Variant: only the first occurrence is replaced (str.replace(old, new, 1)).
replace_first(s, old, new) ==
    IF \E i \in 1..(Len(s) - Len(old) + 1) : SubSeq(s, i, i + Len(old) - 1) = old
    THEN LET i == CHOOSE i \in 1..(Len(s) - Len(old) + 1) :
                    /\ SubSeq(s, i, i + Len(old) - 1) = old
                    /\ \A j \in 1..(i - 1) : SubSeq(s, j, j + Len(old) - 1) # old
         IN  SubSeq(s, 1, i - 1) \o new \o SubSeq(s, i + Len(old), Len(s))
    ELSE s

\* str.replace(old, new) for a non-empty old: every non-overlapping
\* occurrence, scanning from the left.
RECURSIVE replace(_, _, _)
replace(s, old, new) ==
    IF Len(s) < Len(old) THEN s
    ELSE IF SubSeq(s, 1, Len(old)) = old
         THEN new \o replace(SubSeq(s, Len(old) + 1, Len(s)), old, new)
         ELSE <<s[1]>> \o replace(Tail(s), old, new)

\* os.path.join(root, fname) for a relative fname.
join(root, fname) ==
    IF root = <<>> \/ root[Len(root)] = "/" THEN root \o fname
    ELSE root \o <<"/">> \o fname

(* ------------------------------ literals ------------------------------ *)

EMPTY == <<"e", "m", "p", "t", "y">>

STR_background == <<"b", "a", "c", "k", "g", "r", "o", "u", "n", "d">>

STR_True == <<"T", "r", "u", "e">>

STR_x == <<"x">>

STR_y == <<"y">>

IMG_EXTENSIONS ==
    << <<".", "j", "p", "g">>, <<".", "j", "p", "e", "g">>, <<".", "p", "n", "g">>,
       <<".", "p", "p", "m">>, <<".", "b", "m", "p">>, <<".", "p", "g", "m">>,
       <<".", "t", "i", "f">>, <<".", "t", "i", "f", "f">>, <<"w", "e", "b", "p">> >>

(* ------------------------------ indexer ------------------------------- *)

has_file_allowed_extension(filename, extensions) ==
    LET filename_lower == lower(filename)
    IN  \E k \in 1..Len(extensions) : endswith(filename_lower, extensions[k])

is_image_file(filename) == has_file_allowed_extension(filename, IMG_EXTENSIONS)

\* Variant: "True" is looked for in the whole path, file name included.
FileRecords_TrueInPath(root, fname, extensions) ==
    IF has_file_allowed_extension(fname, extensions) /\ contains(STR_background, root)
    THEN << <<join(root, fname), EMPTY, 0>> >>
    ELSE IF has_file_allowed_extension(fname, extensions) /\ contains(STR_x, root)
    THEN IF contains(STR_True, join(root, fname))
         THEN << <<join(root, fname), replace(join(root, fname), STR_x, STR_y), 2>> >>
         ELSE << <<join(root, fname), replace(join(root, fname), STR_x, STR_y), 1>> >>
    ELSE <<>>

\* Variant: a background file gets a derived companion path too.
FileRecords_BackgroundTarget(root, fname, extensions) ==
    IF has_file_allowed_extension(fname, extensions) /\ contains(STR_background, root)
    THEN << <<join(root, fname), replace(join(root, fname), STR_x, STR_y), 0>> >>
    ELSE IF has_file_allowed_extension(fname, extensions) /\ contains(STR_x, root)
    THEN IF contains(STR_True, root)
         THEN << <<join(root, fname), replace(join(root, fname), STR_x, STR_y), 2>> >>
         ELSE << <<join(root, fname), replace(join(root, fname), STR_x, STR_y), 1>> >>
    ELSE <<>>

\* The records one visited file contributes: <<path_x, path_y, label>>.
FileRecords(root, fname, extensions) ==
    IF has_file_allowed_extension(fname, extensions) /\ contains(STR_background, root)
    THEN << <<join(root, fname), EMPTY, 0>> >>
    ELSE IF has_file_allowed_extension(fname, extensions) /\ contains(STR_x, root)
    THEN IF contains(STR_True, root)
         THEN << <<join(root, fname), replace(join(root, fname), STR_x, STR_y), 2>> >>
         ELSE << <<join(root, fname), replace(join(root, fname), STR_x, STR_y), 1>> >>
    ELSE <<>>

\* make_dataset over the files os.walk visits, in visiting order; w is the
\* sequence of <<root, fname>> pairs of the two nested loops. The roots do
\* not start with "~", so os.path.expanduser leaves them as they are.
RECURSIVE make_dataset(_, _)
make_dataset(w, extensions) ==
    IF w = <<>> THEN <<>>
    ELSE FileRecords(w[1][1], w[1][2], extensions) \o make_dataset(Tail(w), extensions)

(* ----------------------------- file system ---------------------------- *)

DIR_x == <<"d", "/", "x">>

DIR_xTrue == <<"d", "/", "x", "/", "T", "r", "u", "e">>

DIR_background == <<"d", "/">> \o STR_background

DIR_xbackground == <<"d", "/", "x", "/">> \o STR_background

DIR_m == <<"d", "/", "m">>

F_a_png == <<"a", ".", "p", "n", "g">>

F_x_PNG == <<"x", ".", "P", "N", "G">>

F_True_jpg == <<"T", "r", "u", "e", ".", "j", "p", "g">>

F_awebp == <<"a", "w", "e", "b", "p">>

F_a_txt == <<"a", ".", "t", "x", "t">>

F_y_tif == <<"y", ".", "t", "i", "f">>

\* The <<root, fname>> pairs a walk may visit.
Files ==
    { <<DIR_x, F_a_png>>, <<DIR_x, F_x_PNG>>, <<DIR_x, F_True_jpg>>,
      <<DIR_x, F_awebp>>, <<DIR_x, F_a_txt>>, <<DIR_x, F_y_tif>>,
      <<DIR_xTrue, F_a_png>>, <<DIR_background, F_a_png>>,
      <<DIR_xbackground, F_a_png>>, <<DIR_m, F_a_png>> }

\* os.walk visits each file once: sequences of at most max distinct files.
Walks(max) ==
    UNION { { w \in [1..n -> Files] : \A i, j \in 1..n : i # j => w[i] # w[j] }
            : n \in 0..max }

(* ------------------------------- images ------------------------------- *)

\* An image: mode, height, width and px, a function from <<row, column>>
\* (from 0) to the tuple of band values of that pixel.
NoImage == [mode |-> "none", h |-> 0, w |-> 0, px |-> [p \in {} |-> <<>>]]

Coords(h, w) == (0..(h - 1)) \X (0..(w - 1))

BLACK == <<0, 0, 0>>

WHITE == <<255, 255, 255>>

RED == <<255, 0, 0>>

\* Decoded content of a readable file (an RGB raster):
\*     black red
\*     white white
RasterA ==
    [mode |-> "RGB", h |-> 2, w |-> 2,
     px |-> [p \in Coords(2, 2) |->
               IF p = <<0, 0>> THEN BLACK ELSE IF p = <<0, 1>> THEN RED ELSE WHITE]]

\* What is on disk at a path: whether accimage decodes it, what PIL's
\* open/Image.open gives ("ok" or the exception raised), and the content.
DiskFiles ==
    { [acc |-> "ok", pil |-> "ok", raster |-> RasterA],
      [acc |-> "IOError", pil |-> "ok", raster |-> RasterA],
      [acc |-> "IOError", pil |-> "FileNotFoundError", raster |-> NoImage],
      [acc |-> "IOError", pil |-> "UnidentifiedImageError", raster |-> NoImage] }

\* Image.convert('L'): ITU-R 601-2 luma of each pixel.
convert_L(img) ==
    [mode |-> "L", h |-> img.h, w |-> img.w,
     px |-> [p \in DOMAIN img.px |->
               IF Len(img.px[p]) = 1 THEN img.px[p]
               ELSE << (img.px[p][1] * 19595 + img.px[p][2] * 38470
                        + img.px[p][3] * 7471 + 32768) \div 65536 >>]]

\* Image.convert('RGB')
convert_RGB(img) ==
    [mode |-> "RGB", h |-> img.h, w |-> img.w,
     px |-> [p \in DOMAIN img.px |->
               IF Len(img.px[p]) = 3 THEN img.px[p]
               ELSE <<img.px[p][1], img.px[p][1], img.px[p][1]>>]]

\* Variant: the blank target is one row too tall.
zeros_image_tall(n) ==
    [mode |-> "L", h |-> n + 1, w |-> n, px |-> [p \in Coords(n + 1, n) |-> <<0>>]]

\* Image.fromarray(np.zeros([n, n], dtype=np.uint8))
zeros_image(n) ==
    [mode |-> "L", h |-> n, w |-> n, px |-> [p \in Coords(n, n) |-> <<0>>]]

\* np.array(image): shape and the value at each index tuple; an "L" image
\* is two-dimensional, any other one has a trailing band axis.
np_array(img) ==
    IF img.mode = "L"
    THEN [shape |-> <<img.h, img.w>>,
          val |-> [p \in Coords(img.h, img.w) |-> img.px[p][1]]]
    ELSE [shape |-> <<img.h, img.w, 3>>,
          val |-> [q \in (0..(img.h - 1)) \X (0..(img.w - 1)) \X (0..2) |->
                     img.px[<<q[1], q[2]>>][q[3] + 1]]]

RECURSIVE SeqSum(_)
SeqSum(s) == IF s = <<>> THEN 0 ELSE s[1] + SeqSum(Tail(s))

RECURSIVE SeqProd(_)
SeqProd(s) == IF s = <<>> THEN 1 ELSE s[1] * SeqProd(Tail(s))

RECURSIVE SumOver(_)
SumOver(S) ==
    IF S = {} THEN 0
    ELSE LET q == CHOOSE q \in S : TRUE IN SeqSum(q) + SumOver(S \ {q})

\* np.sum(a.nonzero()): the sum of all coordinate indices of the non-zero
\* positions.
np_sum_nonzero(a) == SumOver({q \in DOMAIN a.val : a.val[q] # 0})

\* Variant: the number of non-zero positions over the size.
area_of_count(target) ==
    [num |-> Cardinality({q \in DOMAIN np_array(target).val : np_array(target).val[q] # 0}),
     den |-> SeqProd(np_array(target).shape)]

\* np.sum(np.array(target).nonzero()).astype(np.float32) / np.array(target).size
\* as the fraction num / den.
area_of(target) ==
    [num |-> np_sum_nonzero(np_array(target)), den |-> SeqProd(np_array(target).shape)]

\* np.float32(0)
ZeroArea == [num |-> 0, den |-> 1]

(* ------------------------------- loaders ------------------------------ *)

\* A loader call gives exc ("none" or the exception it raises), the image
\* and the decode attempts made: <<path, backend, outcome>>, the outcome
\* being the mode of the image obtained or the exception raised.
pil_loader(path, file) ==
    IF file.pil # "ok"
    THEN [exc |-> file.pil, img |-> NoImage, attempts |-> << <<path, "PIL", file.pil>> >>]
    ELSE IF contains(STR_y, path)
    THEN [exc |-> "none", img |-> convert_L(file.raster),
          attempts |-> << <<path, "PIL", "L">> >>]
    ELSE [exc |-> "none", img |-> convert_RGB(file.raster),
          attempts |-> << <<path, "PIL", "RGB">> >>]

\* Variant: accimage's IOError is not caught.
accimage_loader_nofallback(path, file) ==
    IF file.acc = "ok"
    THEN [exc |-> "none", img |-> convert_RGB(file.raster),
          attempts |-> << <<path, "accimage", "RGB">> >>]
    ELSE [exc |-> file.acc, img |-> NoImage,
          attempts |-> << <<path, "accimage", file.acc>> >>]

accimage_loader(path, file) ==
    IF file.acc = "ok"
    THEN [exc |-> "none", img |-> convert_RGB(file.raster),
          attempts |-> << <<path, "accimage", "RGB">> >>]
    ELSE [pil_loader(path, file) EXCEPT
            !.attempts = << <<path, "accimage", file.acc>> >> \o @]

default_loader(path, file, backend) ==
    IF backend = "accimage" THEN accimage_loader(path, file)
    ELSE pil_loader(path, file)

(* ------------------------------ transforms ---------------------------- *)

\* Paired transforms a caller may configure; "None" is no transform.
hflip(img) ==
    [img EXCEPT !.px = [p \in DOMAIN img.px |-> img.px[<<p[1], img.w - 1 - p[2]>>]]]

crop(img) ==
    [img EXCEPT !.h = 1, !.w = 1, !.px = [p \in Coords(1, 1) |-> img.px[p]]]

invert(img) ==
    [img EXCEPT !.px = [p \in DOMAIN img.px |->
                          [k \in DOMAIN img.px[p] |-> 255 - img.px[p][k]]]]

Transforms == {"hflip", "crop", "invert"}

apply_transform(t, sample, target) ==
    CASE t = "hflip" -> <<hflip(sample), hflip(target)>>
      [] t = "crop" -> <<crop(sample), crop(target)>>
      [] t = "invert" -> <<invert(sample), invert(target)>>

(* ------------------------------- dataset ------------------------------ *)

NoArea == [num |-> 0, den |-> 0]

NoRet ==
    [index |-> 0, status |-> "none", sample |-> NoImage, target |-> NoImage,
     area |-> NoArea, label |-> -1, attempts |-> <<>>, tcalls |-> <<>>]

\* What a raised exception leaves of a call.
Raised(index, exc, attempts) ==
    [NoRet EXCEPT !.index = index, !.status = exc, !.attempts = attempts]

\* Variant: a negative index is not counted from the end.
list_index_nowrap(n, index) == index

\* Python list indexing: a negative index counts from the end.
list_index(n, index) == IF index < 0 THEN index + n ELSE index

\* DatasetFolder.__getitem__(index), with fx and fy what the disk holds at
\* the record's input and target paths.
getitem(index, fx, fy) ==
    LET i == list_index(Len(samples), index) + 1
    IN  IF i < 1 \/ i > Len(samples) THEN Raised(index, "IndexError", <<>>)
        ELSE
        LET path_x == samples[i][1]
            path_y == samples[i][2]
            lx == default_loader(path_x, fx, image_backend)
            label == classes[i]
            ly == default_loader(path_y, fy, image_backend)
            loaded == IF path_y # EMPTY THEN ly.img ELSE zeros_image(patch_size)
            area == IF path_y # EMPTY THEN area_of(ly.img) ELSE ZeroArea
            att == IF path_y # EMPTY THEN lx.attempts \o ly.attempts ELSE lx.attempts
            out == apply_transform(transform, lx.img, loaded)
        IN  IF lx.exc # "none" THEN Raised(index, lx.exc, lx.attempts)
            ELSE IF path_y # EMPTY /\ ly.exc # "none" THEN Raised(index, ly.exc, att)
            ELSE IF transform # "None"
            THEN [index |-> index, status |-> "ok", sample |-> out[1], target |-> out[2],
                  area |-> IF label # 0 THEN area_of(out[2]) ELSE area,
                  label |-> label, attempts |-> att,
                  tcalls |-> << <<lx.img, loaded>> >>]
            ELSE [index |-> index, status |-> "ok", sample |-> lx.img, target |-> loaded,
                  area |-> area, label |-> label, attempts |-> att, tcalls |-> <<>>]

\* Indices a caller passes.
Indices == (0 - MaxFiles - 1)..MaxFiles

Init ==
    /\ walk \in Walks(MaxFiles)
    /\ image_backend \in {"PIL", "accimage"}
    /\ state = "new"
    /\ samples = <<>>
    /\ classes = <<>>
    /\ patch_size = 0
    /\ transform = "None"
    /\ ret = NoRet

\* Variant: an empty sample list is accepted.
Construct_noraise ==
    /\ state = "new"
    /\ \E p \in 1..MaxPatch, t \in Transforms \cup {"None"} :
         LET found == make_dataset(walk, IMG_EXTENSIONS)
         IN  /\ state' = "constructed"
             /\ classes' = [k \in 1..Len(found) |-> found[k][3]]
             /\ samples' = [k \in 1..Len(found) |-> SubSeq(found[k], 1, 2)]
             /\ patch_size' = p
             /\ transform' = t
    /\ UNCHANGED <<walk, image_backend, ret>>

\* ImageFolderTrain(root, patch_size, transform): DatasetFolder.__init__
\* with IMG_EXTENSIONS and default_loader.
Construct ==
    /\ state = "new"
    /\ \E p \in 1..MaxPatch, t \in Transforms \cup {"None"} :
         LET found == make_dataset(walk, IMG_EXTENSIONS)
         IN  IF Len(found) = 0
             THEN /\ state' = "RuntimeError"
                  /\ UNCHANGED <<samples, classes, patch_size, transform>>
             ELSE /\ state' = "constructed"
                  /\ classes' = [k \in 1..Len(found) |-> found[k][3]]
                  /\ samples' = [k \in 1..Len(found) |-> SubSeq(found[k], 1, 2)]
                  /\ patch_size' = p
                  /\ transform' = t
    /\ UNCHANGED <<walk, image_backend, ret>>

\* dataset[index]
Get ==
    /\ state = "constructed"
    /\ \E index \in Indices, fx \in DiskFiles, fy \in DiskFiles :
         ret' = getitem(index, fx, fy)
    /\ UNCHANGED <<walk, image_backend, state, samples, classes, patch_size, transform>>

Next == Construct \/ Get

\* Datasets that are constructed and read.
Spec == Init /\ [][Next]_vars

InitIndex ==
    /\ walk \in Walks(MaxWalk)
    /\ image_backend \in {"PIL", "accimage"}
    /\ state = "new"
    /\ samples = <<>>
    /\ classes = <<>>
    /\ patch_size = 0
    /\ transform = "None"
    /\ ret = NoRet

NextIndex == Construct

\* Indexing alone, over longer directory walks.
SpecIndex == InitIndex /\ [][NextIndex]_vars

(* ======================== properties: the indexer ===================== *)

Records == 1..Len(samples)

CountOf(c, s) == Cardinality({j \in 1..Len(s) : s[j] = c})

\* C1 as stated: for every record with label 1 or 2, target_path is
\* input_path with only the first "x" replaced by "y".
C1_FirstOccurrenceOnly ==
    state = "constructed" =>
        \A k \in Records :
            classes[k] \in {1, 2} =>
                samples[k][2] = replace_first(samples[k][1], STR_x, STR_y)

\* C1 amended: for every record with label 1 or 2, target_path is
\* input_path with every "x" replaced by "y", the file name's included.
C1_EveryOccurrence ==
    state = "constructed" =>
        \A k \in Records :
            classes[k] \in {1, 2} =>
                /\ Len(samples[k][2]) = Len(samples[k][1])
                /\ \A j \in 1..Len(samples[k][1]) :
                     samples[k][2][j] =
                         IF samples[k][1][j] = "x" THEN "y" ELSE samples[k][1][j]

\* A record with label 1 or 2 whose input path has "x" more than once.
C1_Witness ==
    /\ state = "constructed"
    /\ \E k \in Records : classes[k] \in {1, 2} /\ CountOf("x", samples[k][1]) >= 2

NotNone(v) == v # -1

\* The label C2 states for a file: "True" anywhere in the file's path.
StatedLabel(root, fname) ==
    IF contains(STR_background, root) THEN 0
    ELSE IF contains(STR_x, root) /\ contains(STR_True, join(root, fname)) THEN 2
    ELSE IF contains(STR_x, root) THEN 1
    ELSE -1

\* The label with "True" looked for in the containing directory path.
DirectoryLabel(root, fname) ==
    IF contains(STR_background, root) THEN 0
    ELSE IF contains(STR_x, root) /\ contains(STR_True, root) THEN 2
    ELSE IF contains(STR_x, root) THEN 1
    ELSE -1

\* C2 as stated: files are labelled by the first matching rule, label 2
\* when the directory path has "x" and the file's path (directory or file
\* name) has "True".
C2_TrueAnywhere ==
    state = "constructed" =>
        classes = SelectSeq([k \in 1..Len(walk) |->
                               IF is_image_file(walk[k][2])
                               THEN StatedLabel(walk[k][1], walk[k][2]) ELSE -1],
                            NotNone)

\* C2 amended: files are labelled by the first matching rule: 0 if the
\* containing directory path has "background", else 2 if it has "x" and
\* "True", else 1 if it has "x"; "True" in the file name alone does not
\* give label 2.
C2_TrueInDirectory ==
    state = "constructed" =>
        classes = SelectSeq([k \in 1..Len(walk) |->
                               IF is_image_file(walk[k][2])
                               THEN DirectoryLabel(walk[k][1], walk[k][2]) ELSE -1],
                            NotNone)

\* A label 1 record whose path has "True", in its file name only.
C2_Witness ==
    /\ state = "constructed"
    /\ \E k \in Records : classes[k] = 1 /\ contains(STR_True, samples[k][1])

\* A visited file qualifies: allowed extension and a directory path that
\* meets a classification condition.
Qualifies(f) ==
    /\ is_image_file(f[2])
    /\ contains(STR_background, f[1]) \/ contains(STR_x, f[1])

\* C4: construction succeeds, with a non-empty record list, exactly when
\* the root holds a qualifying file; otherwise it fails and leaves no
\* dataset, not even a partial one.
C4_EmptyDatasetFails ==
    state # "new" =>
        /\ state = "constructed" <=> \E k \in 1..Len(walk) : Qualifies(walk[k])
        /\ state = "constructed" => Len(samples) > 0 /\ Len(classes) = Len(samples)
        /\ state # "constructed" =>
             /\ state = "RuntimeError"
             /\ samples = <<>> /\ classes = <<>> /\ patch_size = 0

\* Construction has failed on a root that holds files, none qualifying.
C4_Witness == state = "RuntimeError" /\ Len(walk) > 0

\* The suffixes C7 lists.
STATED_SUFFIXES ==
    << <<".", "j", "p", "g">>, <<".", "j", "p", "e", "g">>, <<".", "p", "n", "g">>,
       <<".", "p", "p", "m">>, <<".", "b", "m", "p">>, <<".", "p", "g", "m">>,
       <<".", "t", "i", "f">>, <<".", "t", "i", "f", "f">>,
       <<".", "w", "e", "b", "p">> >>

StatedQualifies(f) ==
    /\ \E k \in 1..Len(STATED_SUFFIXES) : endswith(lower(f[2]), STATED_SUFFIXES[k])
    /\ contains(STR_background, f[1]) \/ contains(STR_x, f[1])

PathOf(f) == join(f[1], f[2])

NotEmptyPath(v) == v # <<>>

\* C7: the records are, one each and in order, the visited files whose
\* name ends (case-insensitively) with .jpg, .jpeg, .png, .ppm, .bmp, .pgm,
\* .tif, .tiff or .webp and whose directory path meets a classification
\* condition; no other file yields a record.
C7_DottedSuffixesOnly ==
    state # "new" =>
        [k \in Records |-> samples[k][1]] =
            SelectSeq([k \in 1..Len(walk) |->
                         IF StatedQualifies(walk[k]) THEN PathOf(walk[k]) ELSE <<>>],
                      NotEmptyPath)

(* ======================= properties: the accessor ===================== *)

\* The record a completed call addressed.
Called == list_index(Len(samples), ret.index) + 1

DecodeErrors == {"IOError", "FileNotFoundError", "UnidentifiedImageError"}

SamePath(a, path) == a[1] = path

\* The number of decode attempts a call made on one path.
AttemptsOn(path) ==
    Cardinality({j \in 1..Len(ret.attempts) : SamePath(ret.attempts[j], path)})

\* C5 as stated: under either backend setting a decode failure is
\* propagated as it is, the loader making no second decode attempt with
\* another backend: no path is decoded twice in a call.
C5_NoSecondAttempt ==
    ret.status # "none" =>
        \A j \in 1..Len(ret.attempts) : AttemptsOn(ret.attempts[j][1]) = 1

\* C5 amended: with the PIL backend a decode failure is propagated as it
\* is after the single attempt; with the accimage backend an IOError of
\* accimage is caught and the same path is decoded once more by
\* pil_loader, whose failure is then propagated as it is; no substitute
\* image is returned.
C5_FallbackThenPropagate ==
    ret.status # "none" =>
        /\ image_backend = "PIL" =>
               \A j \in 1..Len(ret.attempts) :
                   /\ ret.attempts[j][2] = "PIL"
                   /\ AttemptsOn(ret.attempts[j][1]) = 1
        /\ \A j \in 1..Len(ret.attempts) :
               (ret.attempts[j][2] = "accimage" /\ ret.attempts[j][3] = "IOError") =>
                   /\ j < Len(ret.attempts)
                   /\ ret.attempts[j + 1][1] = ret.attempts[j][1]
                   /\ ret.attempts[j + 1][2] = "PIL"
                   /\ AttemptsOn(ret.attempts[j][1]) = 2
        /\ ret.status \in DecodeErrors =>
               /\ ret.attempts[Len(ret.attempts)][2] = "PIL"
               /\ ret.attempts[Len(ret.attempts)][3] = ret.status
               /\ ret.sample = NoImage /\ ret.target = NoImage
        /\ ret.status = "ok" =>
               \A j \in 1..Len(ret.attempts) :
                   ret.attempts[j][3] \in DecodeErrors =>
                       ret.attempts[j][2] = "accimage"

\* With the accimage backend a missing file has been tried by accimage and
\* then by PIL, and PIL's error has reached the caller.
C5_Witness ==
    /\ image_backend = "accimage"
    /\ ret.status = "FileNotFoundError"
    /\ AttemptsOn(ret.attempts[Len(ret.attempts)][1]) = 2

\* C6: with the PIL backend, get(index) decodes the input image of every
\* record in RGB mode, whatever characters its path has.
C6_InputAlwaysRGB ==
    (ret.status = "ok" /\ image_backend = "PIL") =>
        ret.attempts[1] = <<samples[Called][1], "PIL", "RGB">>

AllZero(img) == \A p \in DOMAIN img.px : \A k \in DOMAIN img.px[p] : img.px[p][k] = 0

Blank(img) ==
    /\ img.mode = "L" /\ img.h = patch_size /\ img.w = patch_size
    /\ DOMAIN img.px = Coords(patch_size, patch_size)
    /\ AllZero(img)

\* C8 as stated: get(index) on a record with the EMPTY target returns
\* area 0.0 and a target of shape (patch_size, patch_size), all zero, and
\* reads no target file.
C8_ReturnsBlankTarget ==
    (ret.status = "ok" /\ samples[Called][2] = EMPTY) =>
        /\ ret.area.num = 0
        /\ Blank(ret.target)
        /\ \A j \in 1..Len(ret.attempts) : ret.attempts[j][1] = samples[Called][1]

\* C8 amended: get(index) on a record with the EMPTY target reads no
\* target file, returns area 0.0 and makes an all-zero target of shape
\* (patch_size, patch_size); that target is returned when no transform is
\* configured, and is otherwise what the transform is given, the returned
\* target then being the transform's output.
C8_BlankBeforeTransform ==
    (ret.status = "ok" /\ samples[Called][2] = EMPTY) =>
        /\ ret.area.num = 0
        /\ \A j \in 1..Len(ret.attempts) : ret.attempts[j][1] = samples[Called][1]
        /\ transform = "None" => Blank(ret.target)
        /\ transform # "None" =>
               /\ Len(ret.tcalls) = 1
               /\ Blank(ret.tcalls[1][2])
               /\ ret.target = apply_transform(transform, ret.tcalls[1][1],
                                               ret.tcalls[1][2])[2]

\* An EMPTY-target record has been read through a transform whose output
\* is not the blank target.
C8_Witness ==
    /\ ret.status = "ok" /\ samples[Called][2] = EMPTY
    /\ transform # "None" /\ ~Blank(ret.target)

\* C9: every record has one label in {0, 1, 2} and a target_path that is
\* the EMPTY sentinel or a path, never null; a record with label 0 has the
\* EMPTY target; and no get call changes the stored records.
C9_Records ==
    /\ [](state = "constructed" =>
            /\ Len(classes) = Len(samples)
            /\ \A k \in Records :
                 /\ classes[k] \in {0, 1, 2}
                 /\ Len(samples[k]) = 2
                 /\ samples[k][2] = EMPTY \/ contains(<<"/">>, samples[k][2])
                 /\ classes[k] = 0 => samples[k][2] = EMPTY)
    /\ [][state = "constructed" => samples' = samples /\ classes' = classes]_vars

\* A dataset with a label 0 record, after a get call that returned.
C9_Witness ==
    /\ state = "constructed" /\ ret.status = "ok"
    /\ \E k \in Records : classes[k] = 0

RECURSIVE IndexSumOf(_)
IndexSumOf(S) ==
    IF S = {} THEN 0
    ELSE LET q == CHOOSE q \in S : TRUE
         IN  q[1] + q[2] + (q[3] - 1) + IndexSumOf(S \ {q})

\* The area statistic as C10 words it: the coordinate indices of the
\* non-zero positions, summed (over the number of positions).
IndexSum(img) ==
    IndexSumOf({q \in (0..(img.h - 1)) \X (0..(img.w - 1)) \X (1..3) :
                  /\ q[3] <= Len(img.px[<<q[1], q[2]>>])
                  /\ img.px[<<q[1], q[2]>>][q[3]] # 0})

Positions(img) == img.h * img.w * (IF img.mode = "L" THEN 1 ELSE 3)

\* C10: a configured transform is applied once, to (input, target)
\* together, and its pair is returned; for a label other than 0 the area
\* is then computed from the transformed target, for label 0 it stays 0.0;
\* with no transform the area is the one of the loaded target.
C10_AreaAfterTransform ==
    ret.status = "ok" =>
        /\ transform # "None" =>
               /\ Len(ret.tcalls) = 1
               /\ <<ret.sample, ret.target>> =
                      apply_transform(transform, ret.tcalls[1][1], ret.tcalls[1][2])
        /\ transform = "None" => ret.tcalls = <<>>
        /\ ret.label # 0 =>
               /\ ret.area.num = IndexSum(ret.target)
               /\ ret.area.den = Positions(ret.target)
        /\ ret.label = 0 => ret.area.num = 0

\* A label 1 or 2 record read through a transform that changed the
\* target's area statistic.
C10_Witness ==
    /\ ret.status = "ok" /\ ret.label # 0 /\ transform # "None"
    /\ ret.area.num * Positions(ret.tcalls[1][2])
           # IndexSum(ret.tcalls[1][2]) * ret.area.den

====
